---- MODULE Spec2Model ----
(***************************************************************************)
(* Model of TransactionProcessor (sdk/rust/src/processor/mod.rs): the      *)
(* connect / register / serve loop of start() and the registration         *)
(* handshake of register().  The transport (sender, receiver), the         *)
(* protobuf codec and the handlers' apply are external: every result they  *)
(* can return is a nondeterministic choice.                                *)
(***************************************************************************)
EXTENDS Integers, Sequences, FiniteSets, TLC

\* ---------------------------------------------------------------- bounds
MaxHandlers == 2
MaxVersions == 2
MaxCycles == 2
MaxRecv == 2

\* ------------------------------------------------------- input universes
Endpoints == {"tcp://validator:4004"}
Families == {"intkey"}
CorrIds == {"c1", "c2"}
RegCorrIds == {"r1", "r2"}
OtherMessageTypes == {"PING_REQUEST"}
MessageTypes == {"TP_PROCESS_REQUEST"} \cup OtherMessageTypes
WellFormedContents == {"req_ctx1"}
Contents == {"garbage"} \cup WellFormedContents
InvalidMessages == {"bad sig"}
ErrorDescriptions == {"internal failure"}
AckStatuses == {"OK", "ERROR"}
SendErrors == {"DisconnectedError", "TimeoutError", "UnknownError"}
ReplyResults == {"Ok"} \cup SendErrors

VARIABLES
  endpoint,     \* self.endpoint
  conn,         \* self.conn
  handlers,     \* self.handlers
  first_time,   \* local of start()
  restart,      \* local of start()
  pc,           \* position of the single thread of control inside start()
  cycle,        \* number of conn.create() calls so far
  sender,       \* id of the sender of the current cycle (0: none yet)
  open,         \* ids of the senders created and not closed
  ri,           \* position of register() in its nested iteration
  future,       \* correlation id of the registration awaited, or "none"
  regSent,      \* registration requests passed to sender.send this cycle
  regAcked,     \* registration requests whose future resolved Ok this cycle
  registered,   \* what register() returned this cycle
  ackResult,    \* what the last future.get() of this cycle returned
  nRecv,        \* receiver.recv() calls so far
  cycleRecv,    \* receiver.recv() calls on this cycle's receiver
  recvResult,   \* what the last receiver.recv() of this cycle returned
  message,      \* the envelope of the current loop iteration
  request,      \* the parsed TpProcessRequest of the current iteration
  response,     \* the TpProcessResponse of the current iteration
  serialized,   \* the bytes of the response of the current iteration
  iterApplied,  \* handler indexes applied in the current iteration
  iterReplies   \* sender.reply calls of the current iteration

vars == <<endpoint, conn, handlers, first_time, restart, pc, cycle, sender,
          open, ri, future, regSent, regAcked, registered, ackResult, nRecv,
          cycleRecv, recvResult, message, request, response, serialized, iterApplied,
          iterReplies>>

connVars == <<endpoint, conn, handlers, first_time, cycle, sender>>
regVars == <<ri, future, regSent, regAcked, registered, ackResult>>
iterVars == <<message, request, response, serialized, iterApplied, iterReplies>>

\* ------------------------------------------------------------ data types
NoMessage == [message_type |-> "none", correlation_id |-> "", content |-> ""]
NoRequest == [context_id |-> "none", family_name |-> "", family_version |-> 0]
NoBytes == <<>>

\* TpProcessResponse::new()
TpProcessResponseNew == [status |-> "STATUS_UNSET", message |-> ""]

\* ZmqMessageConnection::new(endpoint)
ZmqMessageConnectionNew(e, g) == [endpoint |-> e, gen |-> g]

\* the version lists a handler can declare: 1..k stands for "1.0".."k.0"
VersionLists == {[i \in 1..k |-> i] : k \in 0..MaxVersions}

HandlerUniverse ==
  {[family |-> f, versions |-> vs, namespaces |-> <<"ns">>] :
     f \in Families, vs \in VersionLists}

\* the registries add_handler can build before start()
Registries ==
  UNION {[1..n -> HandlerUniverse] : n \in 0..MaxHandlers}

\* the (handler, version) pairs in the order of the nested for loops
RECURSIVE Pairs(_, _)
Pairs(hs, h) ==
  IF h > Len(hs) THEN <<>>
  ELSE [v \in 1..Len(hs[h].versions) |->
          [handler |-> h, version |-> hs[h].versions[v]]]
       \o Pairs(hs, h + 1)

\* the TpRegisterRequest built for a pair
TpRegisterRequest(hs, p) ==
  [family |-> hs[p.handler].family,
   version |-> p.version,
   namespaces |-> hs[p.handler].namespaces]

\* every request register() has to send, in order
AllRequests(hs) ==
  [i \in 1..Len(Pairs(hs, 1)) |-> TpRegisterRequest(hs, Pairs(hs, 1)[i])]

\* protobuf::parse_from_bytes::<TpProcessRequest>
ParseFromBytes(content) ==
  IF content \in WellFormedContents
  THEN [ok |-> TRUE,
        request |-> [context_id |-> "ctx1",
                     family_name |-> "intkey", family_version |-> 2]]
  ELSE [ok |-> FALSE, request |-> NoRequest]

\* the outcomes of TransactionHandler::apply
ApplyOutcomes ==
  {[kind |-> "Ok", msg |-> ""]}
  \cup {[kind |-> "InvalidTransaction", msg |-> m] : m \in InvalidMessages}
  \cup {[kind |-> "InternalError", msg |-> d] : d \in ErrorDescriptions}

\* err.description()
Description(err) == err.msg

\* Response with the message of InvalidTransaction left unset
ResponseDropsMessage(outcome) ==
  CASE outcome.kind = "Ok" ->
         [TpProcessResponseNew EXCEPT !.status = "OK"]
    [] outcome.kind = "InvalidTransaction" ->
         [TpProcessResponseNew EXCEPT !.status = "INVALID_TRANSACTION"]
    [] OTHER ->
         [TpProcessResponseNew EXCEPT !.status = "INTERNAL_ERROR",
                                      !.message = Description(outcome)]

\* the response start() builds from the outcome of apply
Response(outcome) ==
  CASE outcome.kind = "Ok" ->
         [TpProcessResponseNew EXCEPT !.status = "OK"]
    [] outcome.kind = "InvalidTransaction" ->
         [TpProcessResponseNew EXCEPT !.status = "INVALID_TRANSACTION",
                                      !.message = outcome.msg]
    [] OTHER ->
         [TpProcessResponseNew EXCEPT !.status = "INTERNAL_ERROR",
                                      !.message = Description(outcome)]

\* the response of the catch-all arm
NotImplementedResponse ==
  [TpProcessResponseNew EXCEPT !.status = "INTERNAL_ERROR",
                               !.message = "not implemented..."]

\* response.write_to_bytes(), when it succeeds: the wire form of a response
WriteToBytes(r) == <<r.status, r.message>>

\* the peer's decoding of the wire form
ReadResponse(b) == [status |-> b[1], message |-> b[2]]

\* Route that looks for a handler declaring the family and version of the
\* request, falling back on the first one
RouteByFamilyVersion(hs, req) ==
  LET matching == {h \in 1..Len(hs) :
                     /\ hs[h].family = req.family_name
                     /\ \E v \in 1..Len(hs[h].versions) :
                          hs[h].versions[v] = req.family_version}
  IN IF matching = {} THEN 1
     ELSE CHOOSE h \in matching : \A g \in matching : h <= g

\* the handler a parsed request is applied by: self.handlers[0]
Route(hs, req) == 1

\* `while restart`
WhileRestart(r) == IF r THEN "connect" ELSE "terminated"

\* AfterRegister with the result of register() ignored
AfterRegisterIgnoresResult(ok, r) == "recv"

\* the match on self.register(sender.clone()): true enters the receive loop,
\* false is `continue`, which re-evaluates `while restart`
AfterRegister(ok, r) == IF ok THEN "recv" ELSE WhileRestart(r)

\* ReplyPolicy with UnknownError handled like DisconnectedError
ReplyPolicyUnknownReconnects(result) ==
  CASE result = "Ok" -> "continue"
    [] result = "DisconnectedError" -> "break"
    [] result = "TimeoutError" -> "continue"
    [] result = "UnknownError" -> "break"

\* ReplyPolicy with TimeoutError handled like DisconnectedError
ReplyPolicyTimeoutReconnects(result) ==
  CASE result = "Ok" -> "continue"
    [] result = "DisconnectedError" -> "break"
    [] result = "TimeoutError" -> "break"
    [] result = "UnknownError" -> "stop"

\* the match on the result of sender.reply: what the loop does next
ReplyPolicy(result) ==
  CASE result = "Ok" -> "continue"
    [] result = "DisconnectedError" -> "break"
    [] result = "TimeoutError" -> "continue"
    [] result = "UnknownError" -> "stop"

\* ------------------------------------------------------------------ Init
Init ==
  /\ endpoint \in Endpoints
  /\ conn = ZmqMessageConnectionNew(endpoint, 0)
  /\ handlers \in Registries
  /\ first_time = TRUE
  /\ restart = TRUE
  /\ pc = "connect"
  /\ cycle = 0
  /\ sender = 0
  /\ open = {}
  /\ ri = 1
  /\ future = "none"
  /\ regSent = <<>>
  /\ regAcked = <<>>
  /\ registered = "pending"
  /\ ackResult = "none"
  /\ nRecv = 0
  /\ cycleRecv = 0
  /\ recvResult = "none"
  /\ message = NoMessage
  /\ request = NoRequest
  /\ response = TpProcessResponseNew
  /\ serialized = NoBytes
  /\ iterApplied = <<>>
  /\ iterReplies = <<>>

\* --------------------------------------------------------------- start()
\* Connect whose registration resumes at the pair that failed
ConnectResumesRegistration ==
  /\ pc = "connect"
  /\ cycle < MaxCycles
  /\ first_time' = FALSE
  /\ conn' = IF first_time THEN conn
             ELSE ZmqMessageConnectionNew(endpoint, conn.gen + 1)
  /\ cycle' = cycle + 1
  /\ sender' = cycle + 1
  /\ open' = open \cup {cycle + 1}
  /\ ri' = IF registered = "false" THEN ri ELSE 1
  /\ future' = "none"
  /\ regSent' = IF registered = "false" THEN regAcked ELSE <<>>
  /\ regAcked' = IF registered = "false" THEN regAcked ELSE <<>>
  /\ registered' = "pending"
  /\ ackResult' = "none"
  /\ cycleRecv' = 0
  /\ recvResult' = "none"
  /\ message' = NoMessage
  /\ request' = NoRequest
  /\ response' = TpProcessResponseNew
  /\ serialized' = NoBytes
  /\ iterApplied' = <<>>
  /\ iterReplies' = <<>>
  /\ pc' = "register"
  /\ UNCHANGED <<endpoint, handlers, restart, nRecv>>

\* top of `while restart`: (re)create the connection, create the pair and
\* enter register()
Connect ==
  /\ pc = "connect"
  /\ cycle < MaxCycles
  /\ first_time' = FALSE
  /\ conn' = IF first_time THEN conn
             ELSE ZmqMessageConnectionNew(endpoint, conn.gen + 1)
  /\ cycle' = cycle + 1
  /\ sender' = cycle + 1
  /\ open' = open \cup {cycle + 1}
  /\ ri' = 1
  /\ future' = "none"
  /\ regSent' = <<>>
  /\ regAcked' = <<>>
  /\ registered' = "pending"
  /\ ackResult' = "none"
  /\ cycleRecv' = 0
  /\ recvResult' = "none"
  /\ message' = NoMessage
  /\ request' = NoRequest
  /\ response' = TpProcessResponseNew
  /\ serialized' = NoBytes
  /\ iterApplied' = <<>>
  /\ iterReplies' = <<>>
  /\ pc' = "register"
  /\ UNCHANGED <<endpoint, handlers, restart, nRecv>>

\* register() returns false: `false => continue`, back to `while restart`
RegisterReturnFalse ==
  /\ registered' = "false"
  /\ pc' = AfterRegister(FALSE, restart)

\* request.write_to_bytes() fails for the current pair
RegisterSerializeFail ==
  /\ pc = "register"
  /\ ri <= Len(AllRequests(handlers))
  /\ RegisterReturnFalse
  /\ UNCHANGED <<connVars, restart, open, ri, future, regSent, regAcked,
                 ackResult, nRecv, cycleRecv, recvResult, iterVars>>

\* sender.send fails for the current pair
RegisterSendFail ==
  /\ pc = "register"
  /\ ri <= Len(AllRequests(handlers))
  /\ regSent' = Append(regSent, AllRequests(handlers)[ri])
  /\ RegisterReturnFalse
  /\ UNCHANGED <<connVars, restart, open, ri, future, regAcked,
                 ackResult, nRecv, cycleRecv, recvResult, iterVars>>

\* sender.send succeeds for the current pair and returns a future
RegisterSend ==
  /\ pc = "register"
  /\ ri <= Len(AllRequests(handlers))
  /\ regSent' = Append(regSent, AllRequests(handlers)[ri])
  /\ \E c \in RegCorrIds : future' = c
  /\ pc' = "await"
  /\ UNCHANGED <<connVars, restart, open, ri, regAcked, registered,
                 ackResult, nRecv, cycleRecv, recvResult, iterVars>>

\* RegisterAwait that takes an acknowledgement other than OK for a failure
RegisterAwaitChecksStatus ==
  /\ pc = "await"
  /\ future' = "none"
  /\ \E status \in AckStatuses :
       /\ ackResult' = status
       /\ IF status = "OK"
          THEN /\ regAcked' = Append(regAcked, AllRequests(handlers)[ri])
               /\ ri' = ri + 1
               /\ pc' = "register"
               /\ UNCHANGED registered
          ELSE /\ RegisterReturnFalse
               /\ UNCHANGED <<ri, regAcked>>
  /\ UNCHANGED <<connVars, restart, open, regSent,
                 nRecv, cycleRecv, recvResult, iterVars>>

\* future.get() resolves: the acknowledgement is absorbed, next pair
RegisterAwait ==
  /\ pc = "await"
  /\ regAcked' = Append(regAcked, AllRequests(handlers)[ri])
  /\ ri' = ri + 1
  /\ future' = "none"
  /\ pc' = "register"
  /\ \E status \in AckStatuses : ackResult' = status
  /\ UNCHANGED <<connVars, restart, open, regSent, registered,
                 nRecv, cycleRecv, recvResult, iterVars>>

\* RegisterAwaitFail that goes on with the next pair
RegisterAwaitFailSkips ==
  /\ pc = "await"
  /\ ri' = ri + 1
  /\ future' = "none"
  /\ pc' = "register"
  /\ UNCHANGED <<connVars, restart, open, regSent, regAcked, registered,
                 ackResult, nRecv, cycleRecv, recvResult, iterVars>>

\* future.get() fails
RegisterAwaitFail ==
  /\ pc = "await"
  /\ future' = "none"
  /\ RegisterReturnFalse
  /\ ackResult' = "Err"
  /\ UNCHANGED <<connVars, restart, open, ri, regSent, regAcked,
                 nRecv, cycleRecv, recvResult, iterVars>>

\* RegisterReturnTrue taken for a failure: `continue` instead of the loop
RegisterReturnTrueRetries ==
  /\ pc = "register"
  /\ ri > Len(AllRequests(handlers))
  /\ registered' = "true"
  /\ pc' = WhileRestart(restart)
  /\ UNCHANGED <<connVars, restart, open, ri, future, regSent, regAcked,
                 ackResult, nRecv, cycleRecv, recvResult, iterVars>>

\* both for loops are exhausted: register() returns true, enter the loop
RegisterReturnTrue ==
  /\ pc = "register"
  /\ ri > Len(AllRequests(handlers))
  /\ registered' = "true"
  /\ pc' = AfterRegister(TRUE, restart)
  /\ UNCHANGED <<connVars, restart, open, ri, future, regSent, regAcked,
                 ackResult, nRecv, cycleRecv, recvResult, iterVars>>

\* ------------------------------------------------------- the receive loop
\* a new loop iteration: the locals of the previous one are gone
NewIteration(result, m) ==
  /\ nRecv' = nRecv + 1
  /\ cycleRecv' = cycleRecv + 1
  /\ recvResult' = result
  /\ message' = m
  /\ request' = NoRequest
  /\ response' = TpProcessResponseNew
  /\ serialized' = NoBytes
  /\ iterApplied' = <<>>
  /\ iterReplies' = <<>>

\* `break` out of the receive loop: sender.close(), then `while restart`
Break(r) ==
  /\ open' = open \ {sender}
  /\ restart' = r
  /\ pc' = WhileRestart(r)

\* receiver.recv() returns the outer Err: logged, next iteration
RecvTransportError ==
  /\ pc = "recv"
  /\ nRecv < MaxRecv
  /\ NewIteration("TransportError", NoMessage)
  /\ pc' = "recv"
  /\ UNCHANGED <<connVars, regVars, restart, open>>

\* RecvDisconnected handled like any other receive error
RecvDisconnectedContinues ==
  /\ pc = "recv"
  /\ nRecv < MaxRecv
  /\ NewIteration("DisconnectedError", NoMessage)
  /\ pc' = "recv"
  /\ UNCHANGED <<connVars, regVars, restart, open>>

\* receiver.recv() returns Ok(Err(ReceiveError::DisconnectedError)): break
RecvDisconnected ==
  /\ pc = "recv"
  /\ nRecv < MaxRecv
  /\ NewIteration("DisconnectedError", NoMessage)
  /\ Break(restart)
  /\ UNCHANGED <<connVars, regVars>>

\* RecvOtherError handled like DisconnectedError
RecvOtherErrorBreaks ==
  /\ pc = "recv"
  /\ nRecv < MaxRecv
  /\ NewIteration("OtherError", NoMessage)
  /\ Break(restart)
  /\ UNCHANGED <<connVars, regVars>>

\* receiver.recv() returns Ok(Err(err)) for any other err: continue
RecvOtherError ==
  /\ pc = "recv"
  /\ nRecv < MaxRecv
  /\ NewIteration("OtherError", NoMessage)
  /\ pc' = "recv"
  /\ UNCHANGED <<connVars, regVars, restart, open>>

\* receiver.recv() returns Ok(Ok(message))
RecvMessage ==
  /\ pc = "recv"
  /\ nRecv < MaxRecv
  /\ \E t \in MessageTypes, c \in CorrIds, b \in Contents :
       NewIteration("Message",
                    [message_type |-> t, correlation_id |-> c, content |-> b])
  /\ pc' = "dispatch"
  /\ UNCHANGED <<connVars, regVars, restart, open>>

\* ParseFail that leaves the receive loop
ParseFailBreaks ==
  /\ pc = "dispatch"
  /\ message.message_type = "TP_PROCESS_REQUEST"
  /\ ~ParseFromBytes(message.content).ok
  /\ Break(restart)
  /\ UNCHANGED <<connVars, regVars, nRecv, cycleRecv, recvResult, iterVars>>

\* TP_PROCESS_REQUEST whose content does not parse: logged, continue
ParseFail ==
  /\ pc = "dispatch"
  /\ message.message_type = "TP_PROCESS_REQUEST"
  /\ ~ParseFromBytes(message.content).ok
  /\ pc' = "recv"
  /\ UNCHANGED <<connVars, regVars, restart, open, nRecv, cycleRecv,
                 recvResult, iterVars>>

\* TP_PROCESS_REQUEST that parses: self.handlers[0].apply(&request, ..) and
\* the response built from its outcome; handlers[0] panics on an empty Vec
Apply ==
  /\ pc = "dispatch"
  /\ message.message_type = "TP_PROCESS_REQUEST"
  /\ ParseFromBytes(message.content).ok
  /\ request' = ParseFromBytes(message.content).request
  /\ IF Len(handlers) = 0
     THEN /\ pc' = "panicked"
          /\ UNCHANGED <<response, iterApplied>>
     ELSE \E outcome \in ApplyOutcomes :
            /\ iterApplied' = Append(iterApplied,
                                     [handler |-> Route(handlers, request'),
                                      outcome |-> outcome])
            /\ response' = Response(outcome)
            /\ pc' = "serialize"
  /\ UNCHANGED <<connVars, regVars, restart, open, nRecv, cycleRecv,
                 recvResult, message, serialized, iterReplies>>

\* response.write_to_bytes() succeeds
SerializeResponse ==
  /\ pc = "serialize"
  /\ serialized' = WriteToBytes(response)
  /\ pc' = "reply"
  /\ UNCHANGED <<connVars, regVars, restart, open, nRecv, cycleRecv,
                 recvResult, message, request, response, iterApplied,
                 iterReplies>>

\* SerializeResponseFail that leaves the receive loop
SerializeResponseFailBreaks ==
  /\ pc = "serialize"
  /\ Break(restart)
  /\ UNCHANGED <<connVars, regVars, nRecv, cycleRecv, recvResult, iterVars>>

\* response.write_to_bytes() fails: logged, continue
SerializeResponseFail ==
  /\ pc = "serialize"
  /\ pc' = "recv"
  /\ UNCHANGED <<connVars, regVars, restart, open, nRecv, cycleRecv,
                 recvResult, iterVars>>

\* SendReply that sends a correlation id of its own instead of the envelope's
SendReplyOwnCorrelationId(result) ==
  /\ iterReplies' = Append(iterReplies,
                           [message_type |-> "TP_PROCESS_RESPONSE",
                            correlation_id |-> CHOOSE c \in RegCorrIds : TRUE,
                            content |-> serialized,
                            result |-> result])
  /\ CASE ReplyPolicy(result) = "continue" ->
            /\ pc' = "recv"
            /\ UNCHANGED <<restart, open>>
       [] ReplyPolicy(result) = "break" -> Break(restart)
       [] ReplyPolicy(result) = "stop" -> Break(FALSE)

\* sender.reply(TP_PROCESS_RESPONSE, message.get_correlation_id(), x) and
\* the match on its result
SendReply(result) ==
  /\ iterReplies' = Append(iterReplies,
                           [message_type |-> "TP_PROCESS_RESPONSE",
                            correlation_id |-> message.correlation_id,
                            content |-> serialized,
                            result |-> result])
  /\ CASE ReplyPolicy(result) = "continue" ->
            /\ pc' = "recv"
            /\ UNCHANGED <<restart, open>>
       [] ReplyPolicy(result) = "break" -> Break(restart)
       [] ReplyPolicy(result) = "stop" -> Break(FALSE)

\* the reply to a process request
Reply ==
  /\ pc = "reply"
  /\ \E result \in ReplyResults : SendReply(result)
  /\ UNCHANGED <<connVars, regVars, nRecv, cycleRecv, recvResult, message,
                 request, response, serialized, iterApplied>>

\* any other message type: the "not implemented..." response, serialized
\* with unwrap(), which panics when write_to_bytes() fails
NotImplemented ==
  /\ pc = "dispatch"
  /\ message.message_type # "TP_PROCESS_REQUEST"
  /\ response' = NotImplementedResponse
  /\ \/ /\ serialized' = WriteToBytes(NotImplementedResponse)
        /\ pc' = "reply_other"
     \/ /\ serialized' = serialized
        /\ pc' = "panicked"
  /\ UNCHANGED <<connVars, regVars, restart, open, nRecv, cycleRecv,
                 recvResult, message, request, iterApplied, iterReplies>>

\* the reply of the catch-all arm
ReplyNotImplemented ==
  /\ pc = "reply_other"
  /\ \E result \in ReplyResults : SendReply(result)
  /\ UNCHANGED <<connVars, regVars, nRecv, cycleRecv, recvResult, message,
                 request, response, serialized, iterApplied>>

Next ==
  \/ Connect
  \/ RegisterSerializeFail
  \/ RegisterSendFail
  \/ RegisterSend
  \/ RegisterAwait
  \/ RegisterAwaitFail
  \/ RegisterReturnTrue
  \/ RecvTransportError
  \/ RecvDisconnected
  \/ RecvOtherError
  \/ RecvMessage
  \/ ParseFail
  \/ Apply
  \/ SerializeResponse
  \/ SerializeResponseFail
  \/ Reply
  \/ NotImplemented
  \/ ReplyNotImplemented

Spec == Init /\ [][Next]_vars

\* --------------------------------------------------------- type invariant
TypeOK ==
  /\ pc \in {"connect", "register", "await", "recv", "dispatch", "serialize",
             "reply", "reply_other", "terminated", "panicked"}
  /\ cycle \in 0..MaxCycles
  /\ nRecv \in 0..MaxRecv
  /\ open \subseteq 1..MaxCycles

\* ------------------------------------------------------- shared predicates
Serving == pc \in {"recv", "dispatch", "serialize", "reply", "reply_other"}
InIteration(p) == p \in {"dispatch", "serialize", "reply", "reply_other"}
Ended == pc \in {"terminated", "panicked"}
LastReply == iterReplies[Len(iterReplies)]
LastReplyIs(result) == iterReplies # <<>> /\ LastReply.result = result
ParsedProcessRequest ==
  /\ message.message_type = "TP_PROCESS_REQUEST"
  /\ ParseFromBytes(message.content).ok
MalformedProcessRequest ==
  /\ message.message_type = "TP_PROCESS_REQUEST"
  /\ ~ParseFromBytes(message.content).ok
UnsupportedMessage == message.message_type \in OtherMessageTypes
IsPrefix(s, t) == Len(s) <= Len(t) /\ s = SubSeq(t, 1, Len(s))

\* ------------------------------------------------------------------ C1
\* C1: within a connection cycle nothing is received and no handler is
\* applied until register() has returned true for that cycle, that is until
\* every (handler, version) request was sent and acknowledged on it.
C1_RegisterBeforeServe ==
  (Serving \/ cycleRecv > 0 \/ iterApplied # <<>>) =>
     /\ registered = "true"
     /\ regSent = AllRequests(handlers)
     /\ regAcked = AllRequests(handlers)

C1_Witness ==
  /\ cycle >= 2
  /\ Len(AllRequests(handlers)) >= 2
  /\ iterApplied # <<>>

\* ------------------------------------------------------------------ C2
\* C2 (as claimed): every iteration that received a TP_PROCESS_REQUEST whose
\* payload parses ends with exactly one sender.reply call, carrying the
\* correlation id of the envelope.
C2_ExactlyOneReply ==
  [][(ParsedProcessRequest /\ InIteration(pc) /\ ~InIteration(pc')) =>
       /\ Len(iterReplies') = 1
       /\ iterReplies'[1].correlation_id = message.correlation_id]_vars

\* ------------------------------------------------------------------ C3
\* C3: register() sends one request per (handler, version) pair in registry
\* order, each only after the previous one was acknowledged; after the first
\* failure it returns false and sends nothing more; it returns true only
\* when every pair was sent and acknowledged.
C3_RegisterInOrder ==
  /\ [](/\ IsPrefix(regSent, AllRequests(handlers))
        /\ IsPrefix(regAcked, regSent)
        /\ Len(regSent) <= Len(regAcked) + 1
        /\ (pc = "await" => Len(regSent) = Len(regAcked) + 1)
        /\ (pc = "register" => Len(regSent) = Len(regAcked))
        /\ (registered = "true" => regAcked = AllRequests(handlers))
        /\ (registered = "false" => Len(regAcked) < Len(AllRequests(handlers))))
  /\ [][registered' = "false" =>
          /\ pc' = "connect"
          /\ Len(regSent') <= Len(regAcked') + 1
          /\ (registered = "false" => regSent' = regSent)]_vars

C3_Witness ==
  /\ registered = "false"
  /\ Len(regAcked) >= 1
  /\ Len(regSent) < Len(AllRequests(handlers))

\* ------------------------------------------------------------------ C4
\* C4: the response to a parsed process request depends on the outcome of
\* apply only: Ok gives OK with no message, InvalidTransaction(m) gives
\* INVALID_TRANSACTION with message m, any other error gives INTERNAL_ERROR
\* with the description of the error; this is what is built and what is sent.
ExpectedResponse(o) ==
  IF o.kind = "Ok" THEN [status |-> "OK", message |-> ""]
  ELSE IF o.kind = "InvalidTransaction"
       THEN [status |-> "INVALID_TRANSACTION", message |-> o.msg]
       ELSE [status |-> "INTERNAL_ERROR", message |-> o.msg]

C4_ResponseOfOutcome ==
  (message.message_type = "TP_PROCESS_REQUEST") =>
     /\ (pc \in {"serialize", "reply"} => Len(iterApplied) = 1)
     /\ (iterApplied # <<>> =>
           response = ExpectedResponse(iterApplied[1].outcome))
     /\ \A i \in 1..Len(iterReplies) :
           /\ Len(iterApplied) = 1
           /\ ReadResponse(iterReplies[i].content)
                = ExpectedResponse(iterApplied[1].outcome)
           /\ ReadResponse(iterReplies[i].content).status
                \in {"OK", "INVALID_TRANSACTION", "INTERNAL_ERROR"}

C4_Witness ==
  /\ message.message_type = "TP_PROCESS_REQUEST"
  /\ iterReplies # <<>>
  /\ iterApplied[1].outcome.kind = "InvalidTransaction"
  /\ ReadResponse(iterReplies[1].content).message \in InvalidMessages

\* ------------------------------------------------------------------ C5
\* C5: when the receiver signals Disconnected or a reply returns
\* Disconnected, the sender is closed and the run goes on; the next step
\* creates a new connection to the same endpoint and starts registration
\* from scratch, and nothing is received on a cycle before all its
\* registration requests were acknowledged.
DisconnectSignalled ==
  recvResult = "DisconnectedError" \/ LastReplyIs("DisconnectedError")

C5_ReconnectAfterDisconnect ==
  /\ [][(DisconnectSignalled' /\ ~DisconnectSignalled) =>
          /\ pc' = "connect"
          /\ sender' \notin open'
          /\ restart'
          /\ cycle' = cycle]_vars
  /\ [][DisconnectSignalled =>
          /\ pc' = "register"
          /\ conn'.endpoint = endpoint
          /\ conn'.gen = conn.gen + 1
          /\ endpoint' = endpoint
          /\ sender' # sender
          /\ sender' \in open'
          /\ regSent' = <<>>
          /\ regAcked' = <<>>
          /\ cycleRecv' = 0
          /\ nRecv' = nRecv
          /\ restart']_vars
  /\ [](cycleRecv > 0 => regAcked = AllRequests(handlers))

C5_Witness ==
  /\ DisconnectSignalled
  /\ pc = "connect"
  /\ sender \notin open
  /\ Len(AllRequests(handlers)) >= 1

\* ------------------------------------------------------------------ C6
\* C6: once sender.reply has returned UnknownError, for either kind of
\* response, start() has returned (Terminated) and nothing happens after:
\* no recv, no send or reply, no registration, no new connection.
C6_UnknownTerminates ==
  [][/\ (LastReplyIs("UnknownError")' => (pc' = "terminated" /\ ~restart'))
     /\ (LastReplyIs("UnknownError") => UNCHANGED vars)]_vars

C6_Witness ==
  /\ LastReplyIs("UnknownError")
  /\ pc = "terminated"
  /\ UnsupportedMessage

\* ------------------------------------------------------------------ C7
\* C7: a TP_PROCESS_REQUEST whose payload does not parse gets no reply and
\* no handler; the loop goes back to recv on the same connection, with
\* nothing but the receive counters changed by the malformed envelope.
C7_MalformedDropped ==
  /\ [](MalformedProcessRequest =>
          iterReplies = <<>> /\ iterApplied = <<>> /\ ~Ended)
  /\ [][(MalformedProcessRequest /\ pc = "dispatch") =>
          /\ pc' = "recv"
          /\ iterReplies' = <<>>
          /\ iterApplied' = <<>>
          /\ UNCHANGED <<connVars, regVars, restart, open>>]_vars

C7_Witness ==
  /\ MalformedProcessRequest
  /\ pc = "recv"
  /\ sender \in open

\* ------------------------------------------------------------------ C8
\* C8 (as claimed): every envelope of another message type gets no handler
\* and exactly one reply, INTERNAL_ERROR "not implemented..." with the
\* correlation id of the envelope, whose result is handled by ReplyPolicy.
C8_NotImplementedReply ==
  [][(UnsupportedMessage /\ InIteration(pc) /\ ~InIteration(pc')) =>
       /\ iterApplied' = <<>>
       /\ Len(iterReplies') = 1
       /\ iterReplies'[1].correlation_id = message.correlation_id
       /\ ReadResponse(iterReplies'[1].content)
            = [status |-> "INTERNAL_ERROR", message |-> "not implemented..."]
       /\ pc' = CASE iterReplies'[1].result = "DisconnectedError" -> "connect"
                  [] iterReplies'[1].result = "UnknownError" -> "terminated"
                  [] OTHER -> "recv"]_vars

\* ------------------------------------------------------------------ C9
\* C9 (as claimed): a sender is closed before its cycle is left, so there
\* is never more than one created-but-unclosed sender, and none at all
\* when a replacement is about to be created or start() has returned.
C9_ClosedBeforeDiscard ==
  /\ Cardinality(open) <= 1
  /\ (pc \in {"connect", "terminated"} => open = {})

\* ------------------------------------------------------------------ C10
\* C10 (as claimed): start() ends only in Terminated, and only as the
\* direct result of a reply that returned UnknownError, whatever the number
\* of handlers.
C10_EndsOnlyOnUnknown ==
  Ended => (pc = "terminated" /\ LastReplyIs("UnknownError"))

\* ------------------------------------------------------------------ C11
\* C11 (as claimed): no transport or protocol error ends start() abnormally;
\* in particular the iteration of an envelope of another message type, where
\* only serialization and reply can fail, never ends in a panic.
C11_ErrorsAbsorbed ==
  UnsupportedMessage => pc # "panicked"

\* ------------------------------------------------------------------ C12
\* C12: when register() has returned false the run goes on: the next step
\* replaces the connection by a fresh one to the same endpoint, with a new
\* sender, and registration restarts at the first (handler, version) pair
\* with nothing sent or acknowledged; no count of failures disables the
\* retry.
C12_RetryFromFirstPair ==
  /\ [](registered = "false" =>
          /\ pc = "connect"
          /\ restart
          /\ (cycle < MaxCycles => ENABLED Connect))
  /\ [][registered = "false" =>
          /\ pc' = "register"
          /\ registered' = "pending"
          /\ conn'.endpoint = endpoint
          /\ conn'.gen = conn.gen + 1
          /\ sender' # sender
          /\ sender' \in open'
          /\ ri' = 1
          /\ regSent' = <<>>
          /\ regAcked' = <<>>]_vars
  /\ [][(regSent = <<>> /\ regSent' # <<>>) =>
          regSent' = <<AllRequests(handlers)[1]>>]_vars

C12_Witness ==
  /\ cycle >= 2
  /\ registered = "false"
  /\ Len(regAcked) >= 1
  /\ Len(AllRequests(handlers)) >= 2

\* ------------------------------------------------------------------ C13
\* C13: when sender.reply returns TimeoutError the loop stays on the same
\* connection: the sender is not closed, nothing is registered again, the
\* run does not end, the envelope gets no second reply, and the next step is
\* a recv.
C13_TimeoutContinues ==
  /\ [](LastReplyIs("TimeoutError") =>
          /\ pc = "recv"
          /\ Len(iterReplies) = 1
          /\ sender \in open
          /\ restart
          /\ registered = "true")
  /\ [][(~LastReplyIs("TimeoutError") /\ LastReplyIs("TimeoutError")') =>
          /\ pc \in {"reply", "reply_other"}
          /\ UNCHANGED <<connVars, regVars, restart, open>>]_vars
  /\ [][LastReplyIs("TimeoutError") =>
          /\ nRecv' = nRecv + 1
          /\ cycleRecv' = cycleRecv + 1
          /\ UNCHANGED <<connVars, regVars>>]_vars

C13_Witness ==
  /\ LastReplyIs("TimeoutError")
  /\ pc = "recv"
  /\ ParsedProcessRequest

\* ------------------------------------------------------------------ C14
\* C14: when recv fails with the outer transport error or with a
\* ReceiveError other than DisconnectedError, the iteration applies no
\* handler and sends no reply, and the loop is back at recv on the same
\* connection with everything but the receive counters unchanged.
RecvFailed == recvResult \in {"TransportError", "OtherError"}

C14_RecvErrorContinues ==
  /\ [](RecvFailed =>
          /\ pc = "recv"
          /\ iterApplied = <<>>
          /\ iterReplies = <<>>
          /\ sender \in open
          /\ restart)
  /\ [][(nRecv' = nRecv + 1 /\ RecvFailed') =>
          /\ pc = "recv"
          /\ UNCHANGED <<connVars, regVars, restart, open>>]_vars
  /\ [][RecvFailed => nRecv' = nRecv + 1]_vars

C14_Witness ==
  /\ recvResult = "OtherError"
  /\ pc = "recv"
  /\ cycleRecv >= 2

\* ------------------------------------------------------------------ C15
\* C15: when serializing the response to a parsed process request fails
\* (the iteration leaves "serialize" without reaching "reply"), the handler
\* has been applied, no reply is sent, and the loop is back at recv on the
\* same connection.
SerializationFailed ==
  /\ ParsedProcessRequest
  /\ pc = "recv"
  /\ iterApplied # <<>>
  /\ iterReplies = <<>>

C15_SerializeFailSkipsReply ==
  /\ [][(pc = "serialize" /\ pc' # "reply") =>
          /\ SerializationFailed'
          /\ Len(iterApplied') = 1
          /\ UNCHANGED <<connVars, regVars, restart, open, nRecv>>]_vars
  /\ [][SerializationFailed => nRecv' = nRecv + 1]_vars
  /\ [](SerializationFailed => (sender \in open /\ restart))

C15_Witness ==
  /\ SerializationFailed
  /\ iterApplied[1].outcome.kind = "Ok"

\* ------------------------------------------------------------------ C16
\* C16: a parsed process request is applied by the first handler of the
\* registry and by no other, whatever family and version it declares and
\* whatever the other handlers declare, although every handler's pairs were
\* registered with the peer.
Declares(h, req) ==
  /\ h.family = req.family_name
  /\ \E v \in 1..Len(h.versions) : h.versions[v] = req.family_version

C17_AckContentIgnored ==
  /\ [][(pc = "await" /\ ackResult' \in AckStatuses) =>
          /\ pc' = "register"
          /\ ri' = ri + 1
          /\ regAcked' = Append(regAcked, AllRequests(handlers)[ri])
          /\ registered' = "pending"]_vars
  /\ [][(pc = "register" /\ ri > Len(AllRequests(handlers))) =>
          /\ registered' = "true"
          /\ pc' = "recv"]_vars
  /\ []((pc = "register" /\ ri > Len(AllRequests(handlers))) =>
          ENABLED RegisterReturnTrue)

C17_Witness ==
  /\ registered = "true"
  /\ Serving
  /\ ackResult = "ERROR"
  /\ cycleRecv > 0

\* ------------------------------------------------------------------ C18
\* C18 (as claimed): whenever a parsed process request is about to be
\* dispatched to handlers[0] the registry is not empty, also when start()
\* was called with no handler added.
C18_IndexInBounds ==
  (ParsedProcessRequest /\ pc = "dispatch") => Len(handlers) >= 1

\* ------------------------------------------------------------------ C19
\* C19: the loop calls sender.reply at most once per received envelope,
\* never while registering nor before an envelope was received on the
\* current cycle, and every reply has type TP_PROCESS_RESPONSE and the
\* correlation id of the envelope of the same iteration.
C19_ReplyDiscipline ==
  /\ [](/\ Len(iterReplies) <= 1
        /\ (pc \in {"register", "await"} => iterReplies = <<>>)
        /\ (cycleRecv = 0 => iterReplies = <<>>)
        /\ \A i \in 1..Len(iterReplies) :
             /\ iterReplies[i].message_type = "TP_PROCESS_RESPONSE"
             /\ iterReplies[i].correlation_id = message.correlation_id
             /\ recvResult = "Message"
             /\ message.correlation_id \in CorrIds
             /\ registered = "true")
  /\ [][Len(iterReplies') > Len(iterReplies) =>
          /\ pc \in {"reply", "reply_other"}
          /\ iterReplies = <<>>
          /\ message' = message
          /\ UNCHANGED <<cycle, nRecv, cycleRecv>>]_vars
  /\ [][nRecv' # nRecv => iterReplies' = <<>>]_vars

C19_Witness ==
  /\ Len(iterReplies) = 1
  /\ cycle >= 2
  /\ cycleRecv >= 2
  /\ iterReplies[1].correlation_id = "c2"

\* ---------------------------------------------------------------- liveness
\* The passes of `while restart` after the MaxCycles-th: the same step as
\* Connect, with the cycles beyond the bound no longer told apart, so that a
\* run can retry for ever as the code does.
ConnectBeyondBound ==
  /\ pc = "connect"
  /\ cycle = MaxCycles
  /\ first_time' = FALSE
  /\ conn' = ZmqMessageConnectionNew(endpoint, conn.gen)
  /\ open' = open \cup {sender}
  /\ ri' = 1
  /\ future' = "none"
  /\ regSent' = <<>>
  /\ regAcked' = <<>>
  /\ registered' = "pending"
  /\ ackResult' = "none"
  /\ cycleRecv' = 0
  /\ recvResult' = "none"
  /\ message' = NoMessage
  /\ request' = NoRequest
  /\ response' = TpProcessResponseNew
  /\ serialized' = NoBytes
  /\ iterApplied' = <<>>
  /\ iterReplies' = <<>>
  /\ pc' = "register"
  /\ UNCHANGED <<endpoint, handlers, restart, nRecv, cycle, sender>>

\* the steps of register(): each send and each await returns
RegisterStep ==
  \/ RegisterSerializeFail
  \/ RegisterSendFail
  \/ RegisterSend
  \/ RegisterAwait
  \/ RegisterAwaitFail
  \/ RegisterReturnTrue

LiveNext == Next \/ ConnectBeyondBound

\* the thread of start() goes on whenever it is not blocked in recv
LiveSpec ==
  /\ Init
  /\ [][LiveNext]_vars
  /\ WF_vars(Connect \/ ConnectBeyondBound)
  /\ WF_vars(RegisterStep)

\* ------------------------------------------------------------------ C20
\* C20: if from some point on no registration step fails, then whenever the
\* processor is connecting or registering it eventually is at recv on a
\* fully registered connection.
RegisterFails == registered # "false" /\ registered' = "false"

C20_EventuallyServing ==
  (<>[][~RegisterFails]_vars) =>
     [](pc \in {"connect", "register", "await"} =>
          <>(pc = "recv" /\ registered = "true"
             /\ regAcked = AllRequests(handlers)))

C20_Witness ==
  /\ pc = "recv"
  /\ registered = "true"
  /\ cycle >= 2
  /\ cycleRecv = 0
  /\ nRecv >= 1
  /\ Len(AllRequests(handlers)) >= 2

====
